---- MODULE Spec2Model ----
(***************************************************************************)
(* SaveQuest challenge engine: the enrollment record of one (user,         *)
(* challenge) pair in Firestore, the user's stored transactions, and the   *)
(* service calls joinChallenge / checkIn / syncTransactions.  A call is    *)
(* split at the awaits between its read of the enrollment and its write,   *)
(* where another request of the single-threaded Node process can run.      *)
(*                                                                         *)
(* Time is counted in ticks, TicksPerDay ticks to a UTC day; an ISO date   *)
(* string YYYY-MM-DD is modelled by its day number (string order of ISO    *)
(* dates is the order of day numbers).  The server is taken to run in UTC, *)
(* so Date#setDate and toISOString agree on the calendar day.              *)
(***************************************************************************)
EXTENDS Integers, Sequences, FiniteSets, TLC

\* ---------------------------------------------------------------- bounds
\* the last tick of the clock, the ticks in a day, the longest template
MaxTick == 5
TicksPerDay == 2
MaxDuration == 2

\* the request slots: two calls can be in flight at once
Procs == {1, 2}

\* ---------------------------------------------------------------- values
\* JS null, and a key that is not in the document / object at all
Null == 0 - 1
Absent == 0 - 2
\* new Date().toISOString() in failedAt / completedAt: nothing reads these two
\* keys back, so all their timestamps are one value
Stamped == 0 - 3

\* const toIsoDate = (d) => new Date(d).toISOString().slice(0, 10)
toIsoDate(t) == t \div TicksPerDay

\* String.prototype.includes on category codes, a code being a sequence of
\* its words: "FOOD_AND_DRINK_FAST_FOOD_BURGERS" is <<"FOOD", "FAST", "BURGERS">>.
\* The empty pattern is never passed: the callers test the pattern for
\* truthiness first.
includes(s, sub) ==
  \E i \in 1..(Len(s) + 1) :
     /\ i + Len(sub) - 1 <= Len(s)
     /\ \A k \in 1..Len(sub) : s[i + k - 1] = sub[k]

\* ---------------------------------------------------------------- transactions
\* The records the provider can return for the user (normalized Plaid
\* transactions).  authorized_date is Absent when the provider gave none.
Txn(id, date, adate, primary, detailed, merchant, amount) ==
  [transaction_id |-> id, date |-> date, authorized_date |-> adate,
   primary |-> primary, detailed |-> detailed,
   merchant_name |-> merchant, amount |-> amount]

\* amount is in cents here and a double of dollars in the code: see toDouble
Pool ==
  { Txn(1, 1, 0, <<"FOOD">>, <<"FOOD", "FAST", "BURGERS">>, "Diner", 3000),
    Txn(2, 1, Absent, <<"FOOD">>, <<"FOOD", "FAST">>, "KFC", 3000),
    Txn(3, 1, Absent, <<"RECREATION">>, <<"RECREATION", "FITNESS">>, "Gym", 2000) }

\* const txnDate = txn.authorized_date || txn.date
txnDate(txn) == IF txn.authorized_date # Absent THEN txn.authorized_date ELSE txn.date

\* ---------------------------------------------------------------- templates
RuleTypes == {"spend_block", "spend_cap", "replacement", "streak_goal"}

Template(ruleType, duration) ==
  [exists |-> TRUE, ruleType |-> ruleType, duration |-> duration,
   pfc_detailed |-> IF ruleType = "spend_block" THEN <<"FOOD", "FAST">> ELSE <<>>,
   pfc_primary |-> CASE ruleType = "spend_cap" -> <<"FOOD">>
                     [] ruleType = "streak_goal" -> <<"RECREATION">>
                     [] OTHER -> <<>>,
   merchants |-> IF ruleType = "spend_block" THEN {"KFC"} ELSE {},
   capAmount |-> IF ruleType = "spend_cap" THEN 5000 ELSE 0,
   fromCategory |-> IF ruleType = "replacement" THEN <<"FOOD", "FAST">> ELSE <<>>,
   toCategory |-> IF ruleType = "replacement" THEN <<"RECREATION", "FITNESS">> ELSE <<>>]

\* the challengeId of the pair has no document in the 'challenges' collection
NoTemplate ==
  [exists |-> FALSE, ruleType |-> "none", duration |-> 0,
   pfc_detailed |-> <<>>, pfc_primary |-> <<>>, merchants |-> {},
   capAmount |-> 0, fromCategory |-> <<>>, toCategory |-> <<>>]

Catalog ==
  { Template(r, d) : r \in RuleTypes, d \in 1..MaxDuration } \cup { NoTemplate }

\* ---------------------------------------------------------------- rule evaluator
\* ---- the arithmetic of amounts
\* txn.amount and capAmount are JS numbers: IEEE-754 doubles holding dollars.
\* A double that lies next to a whole number of cents c is kept as [c, d], its
\* exact value being (c * 2^52 + d) / (100 * 2^52); amounts are a dollar or
\* more (or zero), so d is an integer.
\* 2^52 modulo m, by squaring 2^13 twice
TwoTo52Mod(m) ==
  LET a == 8192 % m
      b == (a * a) % m
  IN (b * b) % m

RECURSIVE ulpOf(_, _)
\* the spacing of the doubles around c cents in units of d: 100 * 2^e, where
\* 2^e <= value < 2^(e+1); called with g = 100
ulpOf(c, g) == IF 2 * g <= c THEN ulpOf(c, 2 * g) ELSE g

\* round to nearest double, ties to the even significand
roundDouble(c, d) ==
  LET g == ulpOf(IF d < 0 THEN c - 1 ELSE c, 100)
      r == (c * TwoTo52Mod(2 * g) + d) % (2 * g)
      q == r % g
  IN IF q = 0 THEN [c |-> c, d |-> d]
     ELSE IF 2 * q < g THEN [c |-> c, d |-> d - q]
     ELSE IF 2 * q > g THEN [c |-> c, d |-> d - q + g]
     ELSE IF r = q THEN [c |-> c, d |-> d - q]
     ELSE [c |-> c, d |-> d - q + g]

\* the double a JSON number of c cents parses to
toDouble(c) == roundDouble(c, 0)

\* x + y in double arithmetic
addDouble(x, y) == roundDouble(x.c + y.c, x.d + y.d)

\* x > y
gtDouble(x, y) == x.c > y.c \/ (x.c = y.c /\ x.d > y.d)

RECURSIVE reduceAbs(_, _)
\* .reduce((sum, txn) => sum + Math.abs(txn.amount), 0), the array being in
\* the order the collection is read: by document id
reduceAbs(sum, S) ==
  IF S = {} THEN sum
  ELSE LET txn == CHOOSE x \in S : \A y \in S : x.transaction_id <= y.transaction_id
           abs == IF txn.amount < 0 THEN 0 - txn.amount ELSE txn.amount
       IN reduceAbs(addDouble(sum, toDouble(abs)), S \ {txn})

\* the total of exceedsSpendCap
sumAbs(S) == reduceAbs(toDouble(0), S)

\* mutant of matchesBlocked: the category compared for equality
matchesBlockedExact(txn, template) ==
  \/ template.pfc_detailed # <<>> /\ txn.detailed = template.pfc_detailed
  \/ txn.merchant_name \in template.merchants

matchesBlocked(txn, template) ==
  \/ template.pfc_detailed # <<>> /\ includes(txn.detailed, template.pfc_detailed)
  \/ txn.merchant_name \in template.merchants

spendsBlockedCategory(txns, template) ==
  \E txn \in txns : matchesBlocked(txn, template)

matchesCap(txn, template) ==
  template.pfc_primary # <<>> /\ includes(txn.primary, template.pfc_primary)

exceedsSpendCap(txns, template) ==
  gtDouble(sumAbs({ txn \in txns : matchesCap(txn, template) }),
           toDouble(template.capAmount))

\* mutant of missesReplacement: the swap is not looked at
missesReplacementFromOnly(txns, template) ==
  IF template.fromCategory = <<>> \/ template.toCategory = <<>>
  THEN TRUE
  ELSE \E txn \in txns : includes(txn.detailed, template.fromCategory)

\* mutant of missesReplacement: broken only when the user neither avoided nor swapped
missesReplacementBothMissed(txns, template) ==
  IF template.fromCategory = <<>> \/ template.toCategory = <<>>
  THEN TRUE
  ELSE LET avoided == \A txn \in txns : ~ includes(txn.detailed, template.fromCategory)
           didSwap == \E txn \in txns : \/ includes(txn.detailed, template.toCategory)
                                        \/ includes(txn.primary, template.toCategory)
       IN ~ (avoided \/ didSwap)

missesReplacement(txns, template) ==
  IF template.fromCategory = <<>> \/ template.toCategory = <<>>
  THEN TRUE
  ELSE LET avoided == \A txn \in txns : ~ includes(txn.detailed, template.fromCategory)
           didSwap == \E txn \in txns : \/ includes(txn.detailed, template.toCategory)
                                        \/ includes(txn.primary, template.toCategory)
       IN ~ (avoided /\ didSwap)

\* const duration = template.duration || 7
DefaultDuration == 7

\* mutant of breaksStreakGoal: every transaction bucketed by its posting date
breaksStreakGoalByPostingDate(txns, template, at) ==
  LET okDays == { txn.date : txn \in
                    { t \in txns : /\ template.pfc_primary # <<>>
                                   /\ \/ includes(t.primary, template.pfc_primary)
                                      \/ includes(t.detailed, template.pfc_primary) } }
      duration == IF template.duration = 0 THEN DefaultDuration ELSE template.duration
  IN \E i \in 0..(duration - 1) : (toIsoDate(at) - i) \notin okDays

\* `at` is the instant of the call: breaksStreakGoal reads new Date() itself.
breaksStreakGoal(txns, template, at) ==
  LET okDays == { txnDate(txn) : txn \in
                    { t \in txns : /\ template.pfc_primary # <<>>
                                   /\ \/ includes(t.primary, template.pfc_primary)
                                      \/ includes(t.detailed, template.pfc_primary) } }
      duration == IF template.duration = 0 THEN DefaultDuration ELSE template.duration
  IN \E i \in 0..(duration - 1) : (toIsoDate(at) - i) \notin okDays

\* threw: the default branch's throw new Error(`Unknown rule type`)
evaluateRule(ruleType, txns, template, at) ==
  CASE ruleType = "spend_block" -> [threw |-> FALSE, broken |-> spendsBlockedCategory(txns, template)]
    [] ruleType = "spend_cap"   -> [threw |-> FALSE, broken |-> exceedsSpendCap(txns, template)]
    [] ruleType = "replacement" -> [threw |-> FALSE, broken |-> missesReplacement(txns, template)]
    [] ruleType = "streak_goal" -> [threw |-> FALSE, broken |-> breaksStreakGoal(txns, template, at)]
    [] OTHER -> [threw |-> TRUE, broken |-> FALSE]

\* ---------------------------------------------------------------- enrollment documents
\* users/{userId}/challenges/{challengeId}.  A key the document does not
\* have is Absent ("absent" for status, NoReason for failureReason).
NoReason == [text |-> "", first |-> 0]

NoDoc ==
  [exists |-> FALSE, status |-> "absent", streak |-> Absent,
   lastCheckIn |-> Absent, checkIns |-> <<>>, joinedAt |-> Absent,
   failedAt |-> Absent, failureReason |-> NoReason, completedAt |-> Absent]

\* challengeRef.set(challengeData, { merge: true }): the keys of challengeData
\* replace the stored ones, every other stored key stays.
saveChallengeData(doc, challengeData) ==
  LET pick(new, old, none) == IF new # none THEN new ELSE old
  IN [exists |-> TRUE,
      status |-> pick(challengeData.status, doc.status, "absent"),
      streak |-> pick(challengeData.streak, doc.streak, Absent),
      lastCheckIn |-> pick(challengeData.lastCheckIn, doc.lastCheckIn, Absent),
      checkIns |-> challengeData.checkIns,
      joinedAt |-> pick(challengeData.joinedAt, doc.joinedAt, Absent),
      failedAt |-> pick(challengeData.failedAt, doc.failedAt, Absent),
      failureReason |-> pick(challengeData.failureReason, doc.failureReason, NoReason),
      completedAt |-> pick(challengeData.completedAt, doc.completedAt, Absent)]

\* mutant of joinData: the literal without its streak and lastCheckIn keys
joinDataKeepsProgress(at) ==
  [exists |-> TRUE, status |-> "active", streak |-> Absent, lastCheckIn |-> Absent,
   checkIns |-> <<>>, joinedAt |-> at,
   failedAt |-> Absent, failureReason |-> NoReason, completedAt |-> Absent]

\* the object literal joinChallenge builds
joinData(at) ==
  [exists |-> TRUE, status |-> "active", streak |-> 0, lastCheckIn |-> Null,
   checkIns |-> <<>>, joinedAt |-> at,
   failedAt |-> Absent, failureReason |-> NoReason, completedAt |-> Absent]

\* mutant of joinRejected: only an active enrollment refuses the join
joinRejectedActiveOnly(challenge) == challenge.exists /\ challenge.status = "active"

\* mutant of joinRejected: the status test inverted
joinRejectedInverted(challenge) == challenge.exists /\ challenge.status = "failed"

\* if (challenge && challenge.status !== 'failed') return { success: false, ... }
joinRejected(challenge) == challenge.exists /\ challenge.status # "failed"

\* ---------------------------------------------------------------- checkIn's arithmetic
\* challengeEndDate.setDate(getDate() + duration): the same time of day, duration days on
challengeEndDate(joinedAt, template) == joinedAt + template.duration * TicksPerDay

challengeEndOnly(joinedAt, template) == toIsoDate(challengeEndDate(joinedAt, template))

Min(a, b) == IF a < b THEN a ELSE b

\* mutant of checkInStreak: calendar days between the two dates instead of
\* whole elapsed days
checkInStreakByDate(joinedAt, today, template) ==
  Min(toIsoDate(today) - toIsoDate(joinedAt), template.duration)

\* const daysSinceJoin = Math.floor((today - joinDate) / (1000 * 60 * 60 * 24));
\* const streak = Math.min(daysSinceJoin, challengeTemplate.duration);
checkInStreak(joinedAt, today, template) ==
  Min((today - joinedAt) \div TicksPerDay, template.duration)

\* if (todayOnly <= challengeEndOnly) { evaluate }
periodOpen(joinedAt, today, template) ==
  toIsoDate(today) <= challengeEndOnly(joinedAt, template)

\* mutant of isCompleted: >= for >
isCompletedAtEnd(joinedAt, today, template) ==
  toIsoDate(today) >= challengeEndOnly(joinedAt, template)

\* const isCompleted = todayOnly > challengeEndOnly
isCompleted(joinedAt, today, template) ==
  toIsoDate(today) > challengeEndOnly(joinedAt, template)

\* ---------------------------------------------------------------- evaluateChallenge
\* the window of the whole-period evaluation
relevantTransactions(transactions, joinedAt, today, template) ==
  LET joinDateOnly == toIsoDate(joinedAt)
      evaluateUntil == IF today < challengeEndDate(joinedAt, template)
                       THEN toIsoDate(today)
                       ELSE challengeEndOnly(joinedAt, template)
  IN { txn \in transactions : txnDate(txn) >= joinDateOnly /\ txnDate(txn) <= evaluateUntil }

violatedTransactions(relevant, template) ==
  CASE template.ruleType = "spend_block" ->
         { txn \in relevant : matchesBlocked(txn, template) }
    [] template.ruleType = "spend_cap" ->
         { txn \in relevant : matchesCap(txn, template) }
    [] template.ruleType = "replacement" ->
         { txn \in relevant : /\ template.fromCategory # <<>>
                              /\ includes(txn.detailed, template.fromCategory) }
    [] OTHER -> relevant

reasonOf(template) ==
  CASE template.ruleType = "spend_block" -> "Spent on blocked category/merchant"
    [] template.ruleType = "spend_cap" -> "Exceeded spending cap"
    [] template.ruleType = "replacement" -> "Failed to replace"
    [] template.ruleType = "streak_goal" -> "Missed daily goal"
    [] OTHER -> "Challenge rule was broken"

EvalError(message) ==
  [success |-> FALSE, message |-> message, ruleBroken |-> FALSE,
   reason |-> "", violatedTransactions |-> {}]

\* evaluateChallenge(userId, challengeId) without an evaluationDate; `today`
\* is the instant of its new Date()
evaluateChallenge(template, transactions, challengeData, today) ==
  IF ~ template.exists THEN EvalError("Challenge template not found.")
  ELSE IF transactions = {} THEN EvalError("No transactions found.")
  ELSE IF ~ challengeData.exists THEN EvalError("User challenge data not found.")
  ELSE
    LET relevant == relevantTransactions(transactions, challengeData.joinedAt, today, template)
        verdict == evaluateRule(template.ruleType, relevant, template, today)
    IN IF verdict.threw THEN EvalError("Error evaluating challenge")
       ELSE [success |-> TRUE, message |-> "", ruleBroken |-> verdict.broken,
             reason |-> IF verdict.broken THEN reasonOf(template) ELSE "",
             violatedTransactions |->
               IF verdict.broken THEN violatedTransactions(relevant, template) ELSE {}]

\* let detailedMessage = evaluation.reason || 'Challenge rule violation detected',
\* then the first violating transaction, violatedTransactions[0], when there is one
\* (the collection is read in document-id order)
detailedMessage(evaluation) ==
  [text |-> IF evaluation.reason # "" THEN evaluation.reason
            ELSE "Challenge rule violation detected",
   first |-> IF evaluation.violatedTransactions = {} THEN 0
             ELSE CHOOSE i \in { t.transaction_id : t \in evaluation.violatedTransactions } :
                    \A t \in evaluation.violatedTransactions : i <= t.transaction_id]

\* ---------------------------------------------------------------- state
VARIABLES
  now,     \* the clock, in ticks
  tmpl,    \* what getChallengeTemplate(challengeId) returns for the pair's challenge
  chal,    \* the stored enrollment document of the pair
  txns,    \* the user's stored transaction documents
  pc,      \* per request slot: where the running call is suspended
  data,    \* per request slot: the call's local `data`
  today,   \* per request slot: checkIn's `today` (an instant)
  detail,  \* per request slot: checkIn's detailedMessage once a violation was found
  ret      \* the response returned by the step just taken, NoRet if none

vars == <<now, tmpl, chal, txns, pc, data, today, detail, ret>>

NoRet ==
  [op |-> "", success |-> FALSE, message |-> "",
   challengeFailed |-> FALSE, status |-> "", streak |-> Absent]

Failure(op, message, challengeFailed) ==
  [op |-> op, success |-> FALSE, message |-> message,
   challengeFailed |-> challengeFailed, status |-> "", streak |-> Absent]

Init ==
  /\ now = 0
  /\ tmpl \in Catalog
  /\ chal = NoDoc
  /\ txns = {}
  /\ pc = [p \in Procs |-> "idle"]
  /\ data = [p \in Procs |-> NoDoc]
  /\ today = [p \in Procs |-> 0]
  /\ detail = [p \in Procs |-> NoReason]
  /\ ret = NoRet

\* firestoreService.getChallengeTemplate(challengeId): the template document
\* of the pair's challenge, or null (NoTemplate)
getChallengeTemplate == tmpl

\* an incoming call takes the first free slot
Accept(p) == pc[p] = "idle" /\ \A q \in Procs : q < p => pc[q] # "idle"

\* a call returns: its slot is free again and its locals are gone
Return(p, response) ==
  /\ pc' = [pc EXCEPT ![p] = "idle"]
  /\ data' = [data EXCEPT ![p] = NoDoc]
  /\ today' = [today EXCEPT ![p] = 0]
  /\ detail' = [detail EXCEPT ![p] = NoReason]
  /\ ret' = response

\* ---------------------------------------------------------------- joinChallenge
\* getChallengeData, the already-joined test, the new record (joinedAt = now)
JoinStart(p) ==
  /\ Accept(p)
  /\ IF joinRejected(chal)
     THEN /\ Return(p, Failure("join", "User already joined this challenge.", FALSE))
     ELSE /\ pc' = [pc EXCEPT ![p] = "joinSave"]
          /\ data' = [data EXCEPT ![p] = joinData(now)]
          /\ ret' = NoRet
          /\ UNCHANGED <<today, detail>>
  /\ UNCHANGED <<now, tmpl, chal, txns>>

\* saveChallengeData(userId, challengeId, data); return { success: true, data }
JoinSave(p) ==
  /\ pc[p] = "joinSave"
  /\ chal' = saveChallengeData(chal, data[p])
  /\ Return(p, [op |-> "join", success |-> TRUE, message |-> "",
                challengeFailed |-> FALSE, status |-> data[p].status,
                streak |-> data[p].streak])
  /\ UNCHANGED <<now, tmpl, txns>>

\* ---------------------------------------------------------------- checkIn
\* mutant of checkInRejected: the failed test left out
checkInRejectedUnenrolled(d) == ~ d.exists

\* if (!data) ...; if (data.status === 'failed') ...
checkInRejected(d) == ~ d.exists \/ d.status = "failed"

\* getChallengeData and the two rejections, then getChallengeTemplate and the
\* date range (today = new Date()): the template is static and the clock does
\* not move inside a call, so the two reads are one step
CheckInStart(p) ==
  /\ Accept(p)
  /\ IF checkInRejected(chal)
     THEN IF ~ chal.exists
          THEN Return(p, Failure("checkIn", "User is not enrolled in this challenge.", FALSE))
          ELSE Return(p, Failure("checkIn", "This challenge has failed. Please rejoin to start over.", TRUE))
     ELSE IF ~ getChallengeTemplate.exists
     THEN Return(p, Failure("checkIn", "Challenge template not found.", FALSE))
     ELSE /\ pc' = [pc EXCEPT ![p] =
                      IF periodOpen(chal.joinedAt, now, tmpl) THEN "evaluate" ELSE "save"]
          /\ data' = [data EXCEPT ![p] = chal]
          /\ today' = [today EXCEPT ![p] = now]
          /\ ret' = NoRet
          /\ UNCHANGED detail
  /\ UNCHANGED <<now, tmpl, chal, txns>>

\* const evaluation = await this.evaluateChallenge(userId, challengeId): its
\* reads of the transactions and of the enrollment are taken together
CheckInEvaluate(p) ==
  /\ pc[p] = "evaluate"
  /\ LET evaluation == evaluateChallenge(getChallengeTemplate, txns, chal, now)
     IN IF ~ evaluation.success
        THEN Return(p, Failure("checkIn", evaluation.message, FALSE))
        ELSE /\ pc' = [pc EXCEPT ![p] = IF evaluation.ruleBroken THEN "saveFailed" ELSE "save"]
             /\ detail' = [detail EXCEPT ![p] =
                             IF evaluation.ruleBroken THEN detailedMessage(evaluation)
                             ELSE NoReason]
             /\ ret' = NoRet
             /\ UNCHANGED <<data, today>>
  /\ UNCHANGED <<now, tmpl, chal, txns>>

\* mutant of failedData: the failureReason key left out
failedDataNoReason(d, reason, streak) ==
  [d EXCEPT !.status = "failed", !.failedAt = Stamped, !.streak = streak]

\* { ...data, status: 'failed', failedAt, failureReason: detailedMessage, streak }
failedData(d, reason, streak) ==
  [d EXCEPT !.status = "failed", !.failedAt = Stamped, !.failureReason = reason,
            !.streak = streak]

\* the write of the failure and the challengeFailed response
CheckInSaveFailed(p) ==
  /\ pc[p] = "saveFailed"
  /\ LET streak == checkInStreak(data[p].joinedAt, today[p], tmpl)
     IN /\ chal' = saveChallengeData(chal, failedData(data[p], detail[p], streak))
        /\ Return(p, [op |-> "checkIn", success |-> FALSE,
                      message |-> "Challenge failed", challengeFailed |-> TRUE,
                      status |-> "", streak |-> streak])
  /\ UNCHANGED <<now, tmpl, txns>>

\* { ...data, status, streak, lastCheckIn: todayOnly, ...(isCompleted && { completedAt }) }
checkedData(d, status, streak, todayOnly) ==
  [d EXCEPT !.status = status, !.streak = streak, !.lastCheckIn = todayOnly,
            !.completedAt = IF status = "completed" THEN Stamped ELSE d.completedAt]

\* const status = isCompleted ? 'completed' : 'active'
checkInStatus(joinedAt, at, template) ==
  IF isCompleted(joinedAt, at, template) THEN "completed" ELSE "active"

\* the write of a check-in without violation and its response
CheckInSave(p) ==
  /\ pc[p] = "save"
  /\ LET streak == checkInStreak(data[p].joinedAt, today[p], tmpl)
         status == checkInStatus(data[p].joinedAt, today[p], tmpl)
     IN /\ chal' = saveChallengeData(chal,
                     checkedData(data[p], status, streak, toIsoDate(today[p])))
        /\ Return(p, [op |-> "checkIn", success |-> TRUE,
                      message |-> IF status = "completed"
                                  THEN "Challenge completed successfully!"
                                  ELSE "Check-in successful!",
                      challengeFailed |-> FALSE, status |-> status, streak |-> streak])
  /\ UNCHANGED <<now, tmpl, txns>>

\* ---------------------------------------------------------------- the environment
\* syncTransactions: the provider's records up to today, upserted by transaction_id
Sync(txn) ==
  /\ txn.date <= toIsoDate(now)
  /\ txns' = { t \in txns : t.transaction_id # txn.transaction_id } \cup { txn }
  /\ ret' = NoRet
  /\ UNCHANGED <<now, tmpl, chal, pc, data, today, detail>>

\* A tick is a good part of a day and a call a few store round trips: the
\* clock advances between calls, not inside one.
Tick ==
  /\ now < MaxTick
  /\ \A p \in Procs : pc[p] = "idle"
  /\ now' = now + 1
  /\ ret' = NoRet
  /\ UNCHANGED <<tmpl, chal, txns, pc, data, today, detail>>

Next ==
  \/ \E p \in Procs : JoinStart(p)
  \/ \E p \in Procs : JoinSave(p)
  \/ \E p \in Procs : CheckInStart(p)
  \/ \E p \in Procs : CheckInEvaluate(p)
  \/ \E p \in Procs : CheckInSaveFailed(p)
  \/ \E p \in Procs : CheckInSave(p)
  \/ \E txn \in Pool : Sync(txn)
  \/ Tick

Spec == Init /\ [][Next]_vars

\* ---------------------------------------------------------------- the rule evaluator alone
\* evaluateRule(ruleType, txns, template) called on its own: templates with
\* each optional part present or missing, a rule type the switch does not
\* know, and any set of the records below as txns.
BlockTemplates ==
  { [Template("spend_block", 1) EXCEPT !.pfc_detailed = c, !.merchants = m] :
      c \in { <<>>, <<"FOOD", "FAST">> }, m \in { {}, {"KFC"} } }

CapTemplates ==
  { [Template("spend_cap", 1) EXCEPT !.capAmount = a] : a \in { 0, 5000 } }

\* the two spend_cap templates of the seed: 'retail-cap-50-14d' with
\* target.pfc_primary 'GENERAL_MERCHANDISE' and 'food-delivery-cap-25-7d' with
\* target.pfc_detailed 'FOOD_AND_DRINK_RESTAURANTS' and no pfc_primary (the
\* evaluator alone does not read their duration)
SeededCapTemplates ==
  { [Template("spend_cap", 1) EXCEPT !.pfc_primary = <<"GENERAL", "MERCHANDISE">>,
                                     !.capAmount = 5000],
    [Template("spend_cap", 1) EXCEPT !.pfc_primary = <<>>,
                                     !.pfc_detailed = <<"FOOD", "RESTAURANTS">>,
                                     !.capAmount = 2500] }

ReplacementTemplates ==
  { [Template("replacement", 1) EXCEPT !.fromCategory = f, !.toCategory = t] :
      f \in { <<>>, <<"FOOD", "FAST">> }, t \in { <<>>, <<"RECREATION", "FITNESS">> } }

StreakTemplates == { Template("streak_goal", d) : d \in 1..MaxDuration }

UnknownTemplate == [Template("spend_block", 1) EXCEPT !.ruleType = "savings_goal"]

RuleCatalog ==
  BlockTemplates \cup CapTemplates \cup SeededCapTemplates \cup ReplacementTemplates
    \cup StreakTemplates \cup { UnknownTemplate }

\* 12.89 + 19.26 + 17.85 dollars of FOOD, a gym visit on day 1 and one
\* authorized on day 2, a credit of 20 dollars, a restaurant bill of 30 and
\* a purchase of general merchandise of 60
RulePool ==
  { Txn(1, 1, 0, <<"FOOD">>, <<"FOOD", "FAST", "BURGERS">>, "Diner", 1289),
    Txn(2, 1, Absent, <<"FOOD">>, <<"FOOD", "FAST">>, "KFC", 1926),
    Txn(3, 1, Absent, <<"FOOD">>, <<"FOOD", "GROCERIES">>, "Market", 1785),
    Txn(4, 1, Absent, <<"RECREATION">>, <<"RECREATION", "FITNESS">>, "Gym", 2000),
    Txn(5, 3, 2, <<"RECREATION">>, <<"RECREATION", "FITNESS">>, "Gym", 2000),
    Txn(6, 0, Absent, <<"FOOD">>, <<"FOOD", "GROCERIES">>, "Market", 0 - 2000),
    Txn(7, 2, Absent, <<"FOOD">>, <<"FOOD", "RESTAURANTS">>, "Bistro", 3000),
    Txn(8, 1, Absent, <<"GENERAL", "MERCHANDISE">>,
        <<"GENERAL", "MERCHANDISE", "ONLINE">>, "Shop", 6000) }

InitRule ==
  /\ now = 0
  /\ tmpl \in RuleCatalog
  /\ chal = NoDoc
  /\ txns \in SUBSET RulePool
  /\ pc = [p \in Procs |-> "idle"]
  /\ data = [p \in Procs |-> NoDoc]
  /\ today = [p \in Procs |-> 0]
  /\ detail = [p \in Procs |-> NoReason]
  /\ ret = NoRet

\* one call evaluateRule(template.ruleType, txns, template), made at `now`
EvaluateRule ==
  /\ ret' = [op |-> "evaluateRule",
             threw |-> evaluateRule(tmpl.ruleType, txns, tmpl, now).threw,
             broken |-> evaluateRule(tmpl.ruleType, txns, tmpl, now).broken]
  /\ UNCHANGED <<now, tmpl, chal, txns, pc, data, today, detail>>

\* time passes between two calls; the last verdict stays in view
RuleTick ==
  /\ now < MaxTick
  /\ now' = now + 1
  /\ UNCHANGED <<tmpl, chal, txns, pc, data, today, detail, ret>>

NextRule ==
  \/ EvaluateRule
  \/ RuleTick

SpecRule == InitRule /\ [][NextRule]_vars

\* ---------------------------------------------------------------- templates without a category
\* the calls of Spec on a replacement template whose replacement object lacks
\* fromCategory, toCategory or both
InvalidTemplates ==
  { [Template("replacement", d) EXCEPT !.fromCategory = ft[1], !.toCategory = ft[2]] :
      d \in 1..MaxDuration,
      ft \in { << <<>>, <<"RECREATION", "FITNESS">> >>,
               << <<"FOOD", "FAST">>, <<>> >>,
               << <<>>, <<>> >> } }

InitInvalid ==
  /\ now = 0
  /\ tmpl \in InvalidTemplates
  /\ chal = NoDoc
  /\ txns = {}
  /\ pc = [p \in Procs |-> "idle"]
  /\ data = [p \in Procs |-> NoDoc]
  /\ today = [p \in Procs |-> 0]
  /\ detail = [p \in Procs |-> NoReason]
  /\ ret = NoRet

SpecInvalid == InitInvalid /\ [][Next]_vars

\* ---------------------------------------------------------------- the dated checkIn
\* checkIn(userId, challengeId, date) of services/challengeService.js: one
\* check-in per settled date, the days since the last check-in evaluated one
\* by one.
SETTLEMENT_LAG_DAYS == 1

\* lagCutoff.setDate(lagCutoff.getDate() - SETTLEMENT_LAG_DAYS); toIsoDate(lagCutoff)
latestConfirmable(at) == toIsoDate(at - SETTLEMENT_LAG_DAYS * TicksPerDay)

\* the dates a caller can pass
Dates == 0..toIsoDate(MaxTick)

\* evaluateChallenge(userId, challengeId, evaluationDate) of that revision:
\* only the transactions dated evaluationDate; `at` is the instant of the call
evaluateChallengeOn(template, transactions, evaluationDate, at) ==
  IF ~ template.exists THEN EvalError("Challenge template not found.")
  ELSE IF transactions = {} THEN EvalError("No transactions found.")
  ELSE
    LET relevant == { txn \in transactions : txnDate(txn) = evaluationDate }
        verdict == evaluateRule(template.ruleType, relevant, template, at)
    IN IF verdict.threw THEN EvalError("Error evaluating challenge")
       ELSE [success |-> TRUE, message |-> "", ruleBroken |-> verdict.broken,
             reason |-> IF verdict.broken THEN reasonOf(template) ELSE "",
             violatedTransactions |->
               IF verdict.broken THEN violatedTransactions(relevant, template) ELSE {}]

\* mutant of datedRejection: the test of the end of the challenge left out
datedRejectionNoEndTest(d, isoDate, template, at) ==
  IF ~ d.exists THEN "User is not enrolled in this challenge."
  ELSE IF d.status = "failed" THEN "This challenge has failed. Please rejoin to start over."
  ELSE IF isoDate > latestConfirmable(at) THEN "Too early to confirm"
  ELSE IF \E i \in 1..Len(d.checkIns) : d.checkIns[i] = isoDate
       THEN "Already checked in for this date."
  ELSE IF ~ template.exists THEN "Challenge template not found."
  ELSE IF isoDate - toIsoDate(d.joinedAt) < 0 THEN "Cannot check in before challenge start date"
  ELSE ""

\* mutant of datedRejection: the checkIns.includes(isoDate) test left out
datedRejectionNoDuplicateTest(d, isoDate, template, at) ==
  IF ~ d.exists THEN "User is not enrolled in this challenge."
  ELSE IF d.status = "failed" THEN "This challenge has failed. Please rejoin to start over."
  ELSE IF isoDate > latestConfirmable(at) THEN "Too early to confirm"
  ELSE IF ~ template.exists THEN "Challenge template not found."
  ELSE IF isoDate - toIsoDate(d.joinedAt) < 0 THEN "Cannot check in before challenge start date"
  ELSE IF isoDate - toIsoDate(d.joinedAt) >= template.duration THEN "Challenge has ended."
  ELSE ""

\* the rejections before any evaluation, in the order of the code; "" if none
datedRejection(d, isoDate, template, at) ==
  IF ~ d.exists THEN "User is not enrolled in this challenge."
  ELSE IF d.status = "failed" THEN "This challenge has failed. Please rejoin to start over."
  ELSE IF isoDate > latestConfirmable(at) THEN "Too early to confirm"
  ELSE IF \E i \in 1..Len(d.checkIns) : d.checkIns[i] = isoDate
       THEN "Already checked in for this date."
  ELSE IF ~ template.exists THEN "Challenge template not found."
  ELSE IF isoDate - toIsoDate(d.joinedAt) < 0 THEN "Cannot check in before challenge start date"
  ELSE IF isoDate - toIsoDate(d.joinedAt) >= template.duration THEN "Challenge has ended."
  ELSE ""

\* for (let d = lastCheck + 1; d < daysBetween; d++): the dates of the loop
gapDates(d, isoDate) ==
  LET joinDateOnly == toIsoDate(d.joinedAt)
      lastCheck == IF d.lastCheckIn \in { Null, Absent } THEN 0 - 1
                   ELSE d.lastCheckIn - joinDateOnly
  IN { joinDateOnly + i : i \in (lastCheck + 1)..(isoDate - joinDateOnly - 1) }

\* if (!res.success || res.ruleBroken): the gap dates that end the loop
badGapDates(d, isoDate, template, transactions, at) ==
  { g \in gapDates(d, isoDate) :
      LET res == evaluateChallengeOn(template, transactions, g, at)
      IN ~ res.success \/ res.ruleBroken }

\* the streak of an accepted dated check-in
datedStreak(d, isoDate) ==
  LET streak == IF d.streak \in { Null, Absent } THEN 0 ELSE d.streak
  IN IF d.lastCheckIn \in { Null, Absent } THEN 1
     ELSE IF isoDate - d.lastCheckIn = 1 THEN streak + 1
     ELSE IF isoDate - d.lastCheckIn > 1 THEN 1
     ELSE streak

\* the lag cutoff, getChallengeData, the rejections and getChallengeTemplate;
\* today[p] holds the code's `today = new Date(isoDate)`
DatedCheckInStart(p, date) ==
  /\ Accept(p)
  /\ LET rejection == datedRejection(chal, date, getChallengeTemplate, now)
     IN IF rejection # ""
        THEN Return(p, Failure("checkIn", rejection, chal.exists /\ chal.status = "failed"))
        ELSE /\ pc' = [pc EXCEPT ![p] = "datedEvaluate"]
             /\ data' = [data EXCEPT ![p] = chal]
             /\ today' = [today EXCEPT ![p] = date]
             /\ ret' = NoRet
             /\ UNCHANGED detail
  /\ UNCHANGED <<now, tmpl, chal, txns>>

\* the loop over the missed days, then todayEval; the reads of the
\* transactions by the successive evaluateChallenge calls are taken together
DatedCheckInEvaluate(p) ==
  /\ pc[p] = "datedEvaluate"
  /\ LET bad == badGapDates(data[p], today[p], getChallengeTemplate, txns, now)
         firstBad == CHOOSE g \in bad : \A h \in bad : g <= h
         res == evaluateChallengeOn(getChallengeTemplate, txns, firstBad, now)
         todayEval == evaluateChallengeOn(getChallengeTemplate, txns, today[p], now)
     IN IF bad # {}
        THEN /\ pc' = [pc EXCEPT ![p] = "datedFailed"]
             /\ detail' = [detail EXCEPT ![p] =
                             [text |-> IF res.message # "" THEN res.message
                                       ELSE "Rule violation detected on missed check-in dates.",
                              first |-> 0]]
        ELSE IF todayEval.ruleBroken
        THEN /\ pc' = [pc EXCEPT ![p] = "datedFailed"]
             /\ detail' = [detail EXCEPT ![p] =
                             [text |-> "Rule violation detected for today's check-in.",
                              first |-> 0]]
        ELSE /\ pc' = [pc EXCEPT ![p] = "datedSave"]
             /\ UNCHANGED detail
  /\ ret' = NoRet
  /\ UNCHANGED <<now, tmpl, chal, txns, data, today>>

\* { ...data, status: 'failed', failedAt, failureReason } and the
\* challengeFailed response
DatedCheckInSaveFailed(p) ==
  /\ pc[p] = "datedFailed"
  /\ chal' = saveChallengeData(chal,
               [data[p] EXCEPT !.status = "failed", !.failedAt = Stamped,
                               !.failureReason = detail[p]])
  /\ Return(p, [op |-> "checkIn", success |-> FALSE, message |-> detail[p].text,
                challengeFailed |-> TRUE, status |-> "", streak |-> Absent])
  /\ UNCHANGED <<now, tmpl, txns>>

\* checkIns.push(isoDate); { ...data, streak, lastCheckIn: isoDate, checkIns }
DatedCheckInSave(p) ==
  /\ pc[p] = "datedSave"
  /\ LET streak == datedStreak(data[p], today[p])
     IN /\ chal' = saveChallengeData(chal,
                     [data[p] EXCEPT !.streak = streak, !.lastCheckIn = today[p],
                                     !.checkIns = Append(@, today[p])])
        /\ Return(p, [op |-> "checkIn", success |-> TRUE,
                      message |-> "Check-in successful!", challengeFailed |-> FALSE,
                      status |-> "", streak |-> streak])
  /\ UNCHANGED <<now, tmpl, txns>>

NextDated ==
  \/ \E p \in Procs : JoinStart(p)
  \/ \E p \in Procs : JoinSave(p)
  \/ \E p \in Procs, date \in Dates : DatedCheckInStart(p, date)
  \/ \E p \in Procs : DatedCheckInEvaluate(p)
  \/ \E p \in Procs : DatedCheckInSaveFailed(p)
  \/ \E p \in Procs : DatedCheckInSave(p)
  \/ \E txn \in Pool : Sync(txn)
  \/ Tick

\* the catalog of Init and a template whose rule type the evaluator does not know
InitDated ==
  /\ now = 0
  /\ tmpl \in Catalog \cup { [UnknownTemplate EXCEPT !.duration = MaxDuration] }
  /\ chal = NoDoc
  /\ txns = {}
  /\ pc = [p \in Procs |-> "idle"]
  /\ data = [p \in Procs |-> NoDoc]
  /\ today = [p \in Procs |-> 0]
  /\ detail = [p \in Procs |-> NoReason]
  /\ ret = NoRet

SpecDated == InitDated /\ [][NextDated]_vars

\* ---------------------------------------------------------------- one caller, with the reads
\* The calls of Spec made one after the other by a caller that waits for each
\* answer (slot 1 alone), together with the two calls that only read:
\* calculateStreak and evaluateChallenge called on their own.

\* mutant of calculateStreak: the streak counted from the checkIns list
calculateStreakCounted(d) ==
  IF ~ d.exists
  THEN [op |-> "getStreak", success |-> FALSE,
        message |-> "User is not enrolled in this challenge.",
        streak |-> Absent, lastCheckIn |-> Absent]
  ELSE [op |-> "getStreak", success |-> TRUE, message |-> "",
        streak |-> Len(d.checkIns),
        lastCheckIn |-> IF d.lastCheckIn \in { Null, Absent } THEN Null ELSE d.lastCheckIn]

\* { success: true, streak: data.streak || 0, lastCheckIn: data.lastCheckIn || null }
calculateStreak(d) ==
  IF ~ d.exists
  THEN [op |-> "getStreak", success |-> FALSE,
        message |-> "User is not enrolled in this challenge.",
        streak |-> Absent, lastCheckIn |-> Absent]
  ELSE [op |-> "getStreak", success |-> TRUE, message |-> "",
        streak |-> IF d.streak \in { Null, Absent, 0 } THEN 0 ELSE d.streak,
        lastCheckIn |-> IF d.lastCheckIn \in { Null, Absent } THEN Null ELSE d.lastCheckIn]

\* calculateStreak(userId, challengeId): one read of the record, then the answer
GetStreak(p) ==
  /\ Accept(p)
  /\ ret' = calculateStreak(chal)
  /\ UNCHANGED <<now, tmpl, chal, txns, pc, data, today, detail>>

\* evaluateChallenge(userId, challengeId) called on its own: the template,
\* the transactions and the record are read, nothing is written
Evaluate(p) ==
  /\ Accept(p)
  /\ LET evaluation == evaluateChallenge(getChallengeTemplate, txns, chal, now)
     IN ret' = [op |-> "evaluate", success |-> evaluation.success,
                message |-> evaluation.message, ruleBroken |-> evaluation.ruleBroken,
                reason |-> evaluation.reason]
  /\ UNCHANGED <<now, tmpl, chal, txns, pc, data, today, detail>>

NextSeq ==
  \/ JoinStart(1)
  \/ JoinSave(1)
  \/ CheckInStart(1)
  \/ CheckInEvaluate(1)
  \/ CheckInSaveFailed(1)
  \/ CheckInSave(1)
  \/ GetStreak(1)
  \/ Evaluate(1)
  \/ \E txn \in Pool : Sync(txn)
  \/ Tick

SpecSeq == Init /\ [][NextSeq]_vars

\* ---------------------------------------------------------------- the transaction store
\* plaidService.getTransactions: the provider's answer, an array of up to
\* `count` records, is handed to firestoreService.saveTransactions.
MaxBatch == 2

\* a record the provider returned without a transaction_id
NoIdTxn == Txn(Absent, 1, Absent, <<"FOOD">>, <<"FOOD", "GROCERIES">>, "Market", 500)

\* the records a batch can hold: the ids 1 and 2 come in two versions (a
\* pending record and its posted correction)
BatchPool == Pool \cup { t \in RulePool : t.transaction_id <= 2 } \cup { NoIdTxn }

Batches == UNION { [1..n -> BatchPool] : n \in 0..MaxBatch }

\* mutant of saveTransactions: every record with an id added as a new document
saveTransactionsAdded(stored, batch) ==
  stored \cup { batch[i] : i \in { k \in 1..Len(batch) : batch[k].transaction_id # Absent } }

\* for (const txn of transactions) { if (!txn.transaction_id) continue;
\*   batch.set(transactionsRef.doc(txn.transaction_id), txn, { merge: true }) }
\* A provider record carries every key, so the merge of a record into the
\* document of its id leaves that record; of two records of one batch with
\* the same id the later one stays.
saveTransactions(stored, batch) ==
  LET ids == { batch[i].transaction_id : i \in 1..Len(batch) } \ { Absent }
      last(id) == batch[CHOOSE i \in 1..Len(batch) :
                          /\ batch[i].transaction_id = id
                          /\ \A j \in (i + 1)..Len(batch) : batch[j].transaction_id # id]
  IN { t \in stored : t.transaction_id \notin ids } \cup { last(id) : id \in ids }

\* one call of getTransactions; its answer is the provider's response
GetTransactions(batch) ==
  /\ txns' = saveTransactions(txns, batch)
  /\ ret' = [op |-> "getTransactions", transactions |-> batch]
  /\ UNCHANGED <<now, tmpl, chal, pc, data, today, detail>>

NextStore == \E batch \in Batches : GetTransactions(batch)

InitStore ==
  /\ now = 0
  /\ tmpl = NoTemplate
  /\ chal = NoDoc
  /\ txns = {}
  /\ pc = [p \in Procs |-> "idle"]
  /\ data = [p \in Procs |-> NoDoc]
  /\ today = [p \in Procs |-> 0]
  /\ detail = [p \in Procs |-> NoReason]
  /\ ret = NoRet

SpecStore == InitStore /\ [][NextStore]_vars

\* ================================================================ claims

\* C1 (as claimed): two overlapping checkIns leave the record some serial
\* order of the two would leave; in particular a stored status 'failed' is
\* never replaced by a checkIn's write of 'active': only a Join's write ends it.
C1_FailedNeverOverwritten ==
  [][ (chal.status = "failed" /\ chal'.status # "failed")
        => \E p \in Procs : JoinSave(p) ]_vars

\* C2: a Join while the stored enrollment is active returns a failure and
\* leaves the stored record as it is.
C2_JoinActiveRejected ==
  [][ \A p \in Procs :
        (JoinStart(p) /\ chal.exists /\ chal.status = "active")
          => /\ ret'.op = "join" /\ ~ ret'.success
             /\ pc'[p] = "idle"
             /\ chal' = chal ]_vars

\* a Join was just rejected on an active enrollment that has progress to lose
C2_Witness ==
  /\ ret.op = "join" /\ ~ ret.success
  /\ chal.status = "active" /\ chal.streak > 0 /\ chal.lastCheckIn # Null

\* C3: the write of every successful Join, first or rejoin, leaves status
\* active, streak 0, no last check-in and the time of the Join as joinedAt.
C3_JoinResets ==
  [][ \A p \in Procs :
        JoinSave(p)
          => /\ chal'.exists /\ chal'.status = "active"
             /\ chal'.streak = 0 /\ chal'.lastCheckIn = Null
             /\ chal'.joinedAt = now
             /\ ret'.op = "join" /\ ret'.success ]_vars

\* a rejoin of an enrollment that had failed has just succeeded
C3_Witness ==
  /\ ret.op = "join" /\ ret.success
  /\ chal.failedAt = Stamped
  /\ chal.status = "active" /\ chal.streak = 0 /\ chal.joinedAt = now /\ now > 0

C5_CompletedNotAccepted ==
  [][ \A p \in Procs :
        (CheckInSave(p) \/ CheckInSaveFailed(p)) => data[p].status # "completed" ]_vars

periodBroken(joinedAt) ==
  LET evaluation == evaluateChallenge(tmpl, txns, [NoDoc EXCEPT !.exists = TRUE, !.joinedAt = joinedAt],
                                      challengeEndDate(joinedAt, tmpl))
  IN evaluation.success /\ evaluation.ruleBroken

\* C7 (as claimed): an enrollment is completed only if the rule is not broken
\* over the stored transactions of its whole period.
C7_CompletedOnlyUnbroken ==
  [][ \A p \in Procs :
        (CheckInSave(p) /\ chal'.status = "completed")
          => ~ periodBroken(data[p].joinedAt) ]_vars

\* C8: a CheckIn whose evaluation reports the rule broken goes on to persist
\* status failed with a non-empty failure reason and answers success=false,
\* challengeFailed=true; a failed record always has a failure reason.
C8_BrokenPersistsFailed ==
  /\ [](chal.status = "failed" => chal.failureReason.text # "")
  /\ [][ \A p \in Procs :
           /\ (CheckInEvaluate(p) /\ evaluateChallenge(tmpl, txns, chal, now).ruleBroken)
                => pc'[p] = "saveFailed"
           /\ CheckInSaveFailed(p)
                => /\ chal'.status = "failed"
                   /\ chal'.failureReason.text # ""
                   /\ ret'.op = "checkIn"
                   /\ ~ ret'.success /\ ret'.challengeFailed ]_vars

\* a CheckIn has just failed the enrollment, naming the first violating transaction
C8_Witness ==
  /\ ret.op = "checkIn" /\ ~ ret.success /\ ret.challengeFailed
  /\ ret.message = "Challenge failed"
  /\ chal.status = "failed" /\ chal.failureReason.first > 0

\* C9 (as claimed): failureReason and failedAt are stored only while status
\* is failed, completedAt only while it is completed.
C9_ReasonOnlyWhenFailed ==
  /\ (chal.failureReason # NoReason \/ chal.failedAt # Absent) => chal.status = "failed"
  /\ chal.completedAt # Absent => chal.status = "completed"

\* C10 (as claimed): a CheckIn without violation persists
\* streak = min(elapsed whole days since join + 1, duration).
C10_StreakPlusOne ==
  [][ \A p \in Procs :
        CheckInSave(p)
          => chal'.streak =
               Min((today[p] - data[p].joinedAt) \div TicksPerDay + 1, tmpl.duration) ]_vars

\* C10 (amended): a CheckIn without violation persists
\* streak = min(elapsed whole days since join, duration).
C10_StreakElapsed ==
  [][ \A p \in Procs :
        CheckInSave(p)
          => /\ chal'.streak =
                  Min((today[p] - data[p].joinedAt) \div TicksPerDay, tmpl.duration)
             /\ ret'.streak = chal'.streak ]_vars

\* a check-in has just stored a streak capped by the duration
C10_Witness ==
  /\ ret.op = "checkIn" /\ ret.success
  /\ (now - chal.joinedAt) \div TicksPerDay > tmpl.duration
  /\ chal.streak = tmpl.duration

\* C11 (as claimed): for a spend_block template, a CheckIn one day after the
\* Join, with no matching transaction dated from the join date to that day,
\* answers status active with streak 1, and a CheckIn two days after the Join,
\* a matching transaction dated the day after the join date being stored,
\* answers challengeFailed and persists status failed.
C11_Scenario ==
  [][ tmpl.ruleType = "spend_block" =>
        \A p \in Procs :
          LET active == chal.exists /\ chal.status = "active"
              joinDay == toIsoDate(chal.joinedAt)
              matching == { txn \in txns : matchesBlocked(txn, tmpl) }
          IN /\ (CheckInStart(p) /\ active
                   /\ now - chal.joinedAt \in { TicksPerDay, 2 * TicksPerDay })
                  => pc'[p] = "evaluate"
             /\ (CheckInEvaluate(p) /\ active
                   /\ now - chal.joinedAt = TicksPerDay
                   /\ \A txn \in matching : txnDate(txn) \notin joinDay..(joinDay + 1))
                  => pc'[p] = "save"
             /\ (CheckInSave(p) /\ today[p] - data[p].joinedAt = TicksPerDay)
                  => /\ ret'.success /\ ret'.status = "active" /\ ret'.streak = 1
                     /\ chal'.status = "active" /\ chal'.streak = 1
             /\ (CheckInEvaluate(p) /\ active
                   /\ now - chal.joinedAt = 2 * TicksPerDay
                   /\ \E txn \in matching : txnDate(txn) = joinDay + 1)
                  => pc'[p] = "saveFailed"
             /\ CheckInSaveFailed(p)
                  => ret'.challengeFailed /\ chal'.status = "failed" ]_vars

\* the transactions of T dated from the join date of the stored enrollment to
\* min(today, join date + duration)
inWindow(T) ==
  { txn \in T : /\ toIsoDate(chal.joinedAt) <= txnDate(txn)
                /\ txnDate(txn) <= Min(toIsoDate(now), toIsoDate(chal.joinedAt) + tmpl.duration) }

\* C12 (as claimed): the whole-period CheckIn evaluates the rule on exactly
\* the stored transactions dated in the window, and its evaluation is the
\* same for every other store (of records the provider has by now) that has
\* the same transactions in the window.
C12_WindowOnly ==
  [][ \A p \in Procs :
        CheckInEvaluate(p)
          => /\ relevantTransactions(txns, chal.joinedAt, now, tmpl) = inWindow(txns)
             /\ \A T \in SUBSET { txn \in Pool : txn.date <= toIsoDate(now) } :
                  inWindow(T) = inWindow(txns)
                    => evaluateChallenge(tmpl, T, chal, now)
                         = evaluateChallenge(tmpl, txns, chal, now) ]_vars

\* C13 (as claimed): no CheckIn confirms a date later than today minus the
\* settlement lag, and none evaluates a transaction dated later than that.
C13_LagRespected ==
  [][ \A p \in Procs :
        /\ CheckInEvaluate(p)
             => \A txn \in relevantTransactions(txns, chal.joinedAt, now, tmpl) :
                  txnDate(txn) <= latestConfirmable(now)
        /\ CheckInSave(p)
             => chal'.lastCheckIn <= latestConfirmable(today[p]) ]_vars

\* C14 (as claimed): a CheckIn during which an evaluation ends in an error
\* (no stored transactions, unknown rule type) or that finds no template
\* answers success=false without challengeFailed and writes nothing.
C14_ErrorLeavesRecord ==
  [][ \A p \in Procs :
        /\ (DatedCheckInEvaluate(p)
              /\ \E date \in gapDates(data[p], today[p]) \cup { today[p] } :
                   ~ evaluateChallengeOn(tmpl, txns, date, now).success)
             => /\ ret'.op = "checkIn" /\ ~ ret'.success /\ ~ ret'.challengeFailed
                /\ pc'[p] = "idle"
        /\ \A date \in Dates :
             (DatedCheckInStart(p, date) /\ chal.exists /\ chal.status = "active"
                /\ ~ tmpl.exists)
               => /\ ret'.op = "checkIn" /\ ~ ret'.success /\ ~ ret'.challengeFailed
                  /\ pc'[p] = "idle" /\ chal' = chal ]_vars

\* C15 (as claimed): two calls of evaluateRule with the same rule type,
\* transactions and template return the same verdict, whenever they are made.
C15_Deterministic ==
  [][ (EvaluateRule /\ ret.op = "evaluateRule") => ret' = ret ]_vars

\* C16: spend_block is broken exactly when some transaction of the set has a
\* detailed category containing the target category, or a merchant name that
\* is a member of the merchant list; with neither configured it is never broken.
C16_SpendBlock ==
  [][ (EvaluateRule /\ tmpl.ruleType = "spend_block")
        => /\ ~ ret'.threw
           /\ ret'.broken
                <=> \E txn \in txns :
                      \/ /\ tmpl.pfc_detailed # <<>>
                         /\ includes(txn.detailed, tmpl.pfc_detailed)
                      \/ txn.merchant_name \in tmpl.merchants
           /\ (tmpl.pfc_detailed = <<>> /\ tmpl.merchants = {}) => ~ ret'.broken ]_vars

\* a set was found broken through a sub-category alone: no transaction has
\* the target category itself or a listed merchant
C16_Witness ==
  /\ ret.op = "evaluateRule" /\ ret.broken
  /\ tmpl.ruleType = "spend_block" /\ txns # {}
  /\ \A txn \in txns : txn.detailed # tmpl.pfc_detailed /\ txn.merchant_name \notin tmpl.merchants

RECURSIVE exactAbs(_)
\* the sum of the absolute values of the amounts of S, in cents
exactAbs(S) ==
  IF S = {} THEN 0
  ELSE LET txn == CHOOSE x \in S : TRUE
       IN (IF txn.amount < 0 THEN 0 - txn.amount ELSE txn.amount) + exactAbs(S \ {txn})

\* C17 (as claimed): spend_cap is broken exactly when the sum of the absolute
\* values of the amounts of the transactions matching the category filter is
\* greater than the cap; a sum equal to the cap is not broken.
C17_SpendCap ==
  [][ (EvaluateRule /\ tmpl.ruleType = "spend_cap")
        => /\ ~ ret'.threw
           /\ ret'.broken
                <=> exactAbs({ txn \in txns : /\ tmpl.pfc_primary # <<>>
                                              /\ includes(txn.primary, tmpl.pfc_primary) })
                      > tmpl.capAmount ]_vars

\* the transactions of the evaluated set matching the from-category, and
\* those matching the to-category
fromHits == { txn \in txns : includes(txn.detailed, tmpl.fromCategory) }

toHits ==
  { txn \in txns : \/ includes(txn.detailed, tmpl.toCategory)
                   \/ includes(txn.primary, tmpl.toCategory) }

\* replacement with both categories configured
bothLegs ==
  tmpl.ruleType = "replacement" /\ tmpl.fromCategory # <<>> /\ tmpl.toCategory # <<>>

C20_InvalidTemplate ==
  [][ /\ \A p \in Procs :
           (CheckInEvaluate(p) /\ txns # {})
             => LET relevant == relevantTransactions(txns, chal.joinedAt, now, tmpl)
                    verdict == evaluateRule(tmpl.ruleType, relevant, tmpl, now)
                IN /\ verdict.threw /\ ~ verdict.broken
                   /\ ret'.op = "checkIn" /\ ~ ret'.success /\ ~ ret'.challengeFailed
      /\ chal'.status # "failed" ]_vars

\* C21: streak_goal is broken exactly when some calendar day among the
\* `duration` days ending on the day of the call has no transaction matching
\* the target category, a transaction counting for its authorized date if it
\* has one and for its posting date otherwise; it is not broken when every
\* day of the window is covered.
C21_StreakCoverage ==
  [][ (EvaluateRule /\ tmpl.ruleType = "streak_goal")
        => /\ ~ ret'.threw
           /\ ret'.broken
                <=> \E i \in 0..(tmpl.duration - 1) :
                      ~ \E txn \in txns :
                          /\ \/ includes(txn.primary, tmpl.pfc_primary)
                             \/ includes(txn.detailed, tmpl.pfc_primary)
                          /\ (toIsoDate(now) - i)
                               = IF txn.authorized_date # Absent
                                 THEN txn.authorized_date ELSE txn.date ]_vars

\* a window of two days or more was found covered, one of its days by a
\* transaction posted a day after it was authorized
C21_Witness ==
  /\ ret.op = "evaluateRule" /\ ~ ret.threw /\ ~ ret.broken
  /\ tmpl.ruleType = "streak_goal" /\ tmpl.duration >= 2
  /\ \E txn \in txns : /\ includes(txn.primary, tmpl.pfc_primary)
                       /\ txn.authorized_date # Absent
                       /\ txn.authorized_date # txn.date

\* C22: a dated checkIn for a date that is already in the enrollment's
\* checkIns list is rejected and leaves the record as it was, and no step
\* leaves the same date twice in the list.
C22_DuplicateRejected ==
  [][ /\ \A p \in Procs, date \in Dates :
           ( /\ DatedCheckInStart(p, date)
             /\ \E i \in 1..Len(chal.checkIns) : chal.checkIns[i] = date )
             => /\ ret'.op = "checkIn" /\ ~ ret'.success
                /\ pc'[p] = "idle"
                /\ chal' = chal
      /\ \A i, j \in 1..Len(chal'.checkIns) :
           chal'.checkIns[i] = chal'.checkIns[j] => i = j ]_vars

\* an active enrollment's recorded date was submitted again and refused as
\* already checked in
C22_Witness ==
  /\ ret.op = "checkIn" /\ ret.message = "Already checked in for this date."
  /\ chal.status = "active" /\ Len(chal.checkIns) >= 1

\* the verdict of the whole-period checkIn (src/unnamed/part_005) made on the
\* check-in date: one evaluation of the transactions from the join date to
\* that date, the enrollment failing when it succeeds and finds the rule broken
wholePeriodFails(d, isoDate) ==
  LET evaluation == evaluateChallenge(getChallengeTemplate, txns, d, isoDate * TicksPerDay)
  IN evaluation.success /\ evaluation.ruleBroken

\* C23 (as claimed): for the same join date, template and stored
\* transactions, the day-by-day checkIn moves the enrollment to failed if and
\* only if the whole-period checkIn does.
C23_SameVerdict ==
  [][ \A p \in Procs :
        DatedCheckInEvaluate(p)
          => (pc'[p] = "datedFailed" <=> wholePeriodFails(data[p], today[p])) ]_vars

\* C24: calculateStreak, a sync and an evaluation called on its own leave the
\* enrollment record as it was, the record changes only in the write of a
\* join or of a check-in, and calculateStreak answers with the stored streak
\* and last check-in, or with the not-enrolled failure when there is no record.
C24_OnlyJoinAndCheckInWrite ==
  [][ /\ (GetStreak(1) \/ Evaluate(1) \/ \E txn \in Pool : Sync(txn)) => chal' = chal
      /\ chal' # chal => (JoinSave(1) \/ CheckInSave(1) \/ CheckInSaveFailed(1))
      /\ GetStreak(1)
           => IF chal.exists
              THEN /\ ret'.success
                   /\ ret'.streak = chal.streak
                   /\ ret'.lastCheckIn = chal.lastCheckIn
              ELSE /\ ~ ret'.success
                   /\ ret'.message = "User is not enrolled in this challenge." ]_vars

\* calculateStreak answered with the streak of a record that has been
\* checked in after a full day or more
C24_Witness ==
  /\ ret.op = "getStreak" /\ ret.success
  /\ ret.streak >= 1 /\ ret.streak = chal.streak
  /\ ret.lastCheckIn = chal.lastCheckIn /\ chal.lastCheckIn >= 1

\* C25: storing a batch a second time leaves the collection as the first
\* store left it, the collection holds one record per transaction id, and no
\* record without a transaction id is in it.
C25_StoreIdempotent ==
  [][ \A batch \in { ret'.transactions } :
        GetTransactions(batch)
          => /\ saveTransactions(txns', batch) = txns'
             /\ \A s, t \in txns' : s.transaction_id = t.transaction_id => s = t
             /\ \A t \in txns' : t.transaction_id # Absent ]_vars

\* a batch with a record without id and a new version of a record that was
\* already stored: the collection holds the new version
C25_Witness ==
  /\ ret.op = "getTransactions"
  /\ \E i, j \in 1..Len(ret.transactions) :
       /\ ret.transactions[i].transaction_id = Absent
       /\ ret.transactions[j] \in txns
       /\ ret.transactions[j] \in Pool
  /\ Cardinality(txns) >= 2

\* C26 (as claimed): for a streak_goal template of duration D >= 2, a checkIn
\* made k calendar days after the join date with 0 <= k < D - 1, every day
\* from the join date to the day of the call having a qualifying transaction,
\* finds no violation and goes on to the write that leaves the record active.
C26_EarlyStreakCheckIn ==
  [][ \A p \in Procs :
        ( /\ CheckInEvaluate(p)
          /\ tmpl.ruleType = "streak_goal" /\ tmpl.duration >= 2
          /\ chal.exists
          /\ toIsoDate(now) - toIsoDate(chal.joinedAt) >= 0
          /\ toIsoDate(now) - toIsoDate(chal.joinedAt) < tmpl.duration - 1
          /\ \A day \in toIsoDate(chal.joinedAt)..toIsoDate(now) :
               \E txn \in txns : /\ includes(txn.primary, tmpl.pfc_primary)
                                 /\ txnDate(txn) = day )
          => /\ pc'[p] = "save"
             /\ checkInStatus(data[p].joinedAt, today[p], tmpl) = "active" ]_vars

\* C27 (as claimed): once a rejoin has written its new record (a later
\* joinedAt, streak 0, active, no check-in), the write of a checkIn whose
\* `data` was read before the rejoin (it carries the earlier joinedAt) leaves
\* that record as it is.
C27_StaleWriteAfterRejoin ==
  [][ \A p \in Procs :
        ( /\ CheckInSave(p) \/ CheckInSaveFailed(p)
          /\ data[p].joinedAt < chal.joinedAt
          /\ chal.status = "active" /\ chal.streak = 0 /\ chal.lastCheckIn = Null )
          => /\ chal'.joinedAt = chal.joinedAt
             /\ chal'.streak = 0
             /\ chal'.status = "active" ]_vars

\* C28: in every reachable state the stored streak of the enrollment is at
\* least 0 and at most the duration of its template.
C28_StreakBounded ==
  chal.exists => (0 <= chal.streak /\ chal.streak <= tmpl.duration)

\* the streak reached the duration of a template of two days or more through
\* dated check-ins
C28_Witness ==
  /\ chal.exists /\ tmpl.duration >= 2
  /\ chal.streak = tmpl.duration
  /\ Len(chal.checkIns) = tmpl.duration

\* C29: with the calls made one after the other, a completed enrollment
\* stays completed: a join on it is refused as on an active one, and no write
\* of a check-in makes it active or failed.
C29_CompletedStays ==
  [][ chal.status = "completed"
        => /\ chal'.status = "completed"
           /\ JoinStart(1)
                => /\ ret'.op = "join" /\ ~ ret'.success
                   /\ ret'.message = "User already joined this challenge."
                   /\ pc'[1] = "idle"
           /\ (CheckInSave(1) \/ CheckInSaveFailed(1))
                => chal'.joinedAt = chal.joinedAt ]_vars

\* a join was refused on a completed enrollment
C29_Witness ==
  /\ chal.status = "completed" /\ chal.completedAt = Stamped
  /\ ret.op = "join" /\ ~ ret.success
  /\ ret.message = "User already joined this challenge."

\* the transactions of the evaluated set in the category the template
\* declares as its target: target.pfc_primary if it has one, else target.pfc_detailed
inDeclaredTarget ==
  { txn \in txns : IF tmpl.pfc_primary # <<>>
                   THEN includes(txn.primary, tmpl.pfc_primary)
                   ELSE /\ tmpl.pfc_detailed # <<>>
                        /\ includes(txn.detailed, tmpl.pfc_detailed) }

\* C30 (as claimed): for each spend_cap template of the seed, a set whose
\* transactions in the template's declared target category sum to more than
\* capAmount is evaluated as broken.
C30_SeededCapTarget ==
  [][ ( /\ EvaluateRule
        /\ tmpl \in SeededCapTemplates
        /\ exactAbs(inDeclaredTarget) > tmpl.capAmount )
        => (~ ret'.threw /\ ret'.broken) ]_vars

====
